---- MODULE Spec2Model ----
(***************************************************************************)
(* Model of wally's installation stage (src/installation.rs):              *)
(* InstallationContext::install, the two link writers, write_contents and  *)
(* package_id_file_name, together with the blocking pool of the tokio      *)
(* runtime that install builds.                                            *)
(*                                                                         *)
(* Paths are sequences of path components relative to the project root;    *)
(* file contents and directory names are strings built as the code builds  *)
(* them.  Option<&str> is a sequence of length 0 (None) or 1 (Some).       *)
(*                                                                         *)
(* Inputs: the resolved graph always activates the root and has metadata   *)
(* for every package it mentions; a dependency may point at a package that *)
(* is not activated, and a registry named by the metadata may be missing   *)
(* from the source map.  What a registry serves for a package is fixed at  *)
(* the first fetch that reaches it; every fetch and every filesystem call  *)
(* may fail.  Spec is one install call on an empty disk; SpecLife is a     *)
(* sequence of clean and install calls on a disk that may hold the output  *)
(* of earlier runs in all three realms.                                    *)
(***************************************************************************)
EXTENDS Integers, Sequences, FiniteSets, TLC

\* ------------------------------------------------------------------------
\* Bounds of the model
\* ------------------------------------------------------------------------

\* longest archive listing the sniffer specification enumerates
MaxLen == 3

\* number of leaf packages of the wide workload (SpecBurst)
BurstPackages == 51

\* ------------------------------------------------------------------------
\* Program constants
\* ------------------------------------------------------------------------

\* tokio::runtime::Builder::worker_threads(50): the async worker threads
WorkerThreads == 50

\* tokio's default max_blocking_threads: the cap of the pool spawn_blocking uses
MaxBlockingThreads == 512

\* ------------------------------------------------------------------------
\* Option<&str>
\* ------------------------------------------------------------------------
None == <<>>
Some(s) == <<s>>
unwrap_or(opt, default) == IF opt = None THEN default ELSE opt[1]

\* ------------------------------------------------------------------------
\* InstallationContext::new: the six directories, relative to the project
\* ------------------------------------------------------------------------
shared_dir == <<"packages">>
server_dir == <<"ServerPackages">>
dev_dir == <<"DevPackages">>
shared_index_dir == shared_dir \o <<"_index">>
server_index_dir == server_dir \o <<"_index">>
dev_index_dir == dev_dir \o <<"_index">>

Realms == {"Shared", "Server", "Dev"}

\* the match on the realm in write_root_package_links
root_base_path(realm) ==
    CASE realm = "Shared" -> shared_dir
      [] realm = "Server" -> server_dir
      [] realm = "Dev" -> dev_dir

\* variant: the Shared and Server arms of the match exchanged
index_base_path_swapped(realm) ==
    CASE realm = "Shared" -> server_index_dir
      [] realm = "Server" -> shared_index_dir
      [] realm = "Dev" -> dev_index_dir

\* the match on the realm in write_package_links and write_contents
index_base_path(realm) ==
    CASE realm = "Shared" -> shared_index_dir
      [] realm = "Server" -> server_index_dir
      [] realm = "Dev" -> dev_index_dir

\* ------------------------------------------------------------------------
\* package_id_file_name and the two link texts
\* ------------------------------------------------------------------------
\* variant: the three parts are joined with dashes
package_id_file_name_dashed(id) ==
    id.scope \o "-" \o id.name \o "-" \o id.version

package_id_file_name(id) == id.scope \o "_" \o id.name \o "@" \o id.version

link_sibling_same_index(id, suffix) ==
    "return require(\"../../" \o package_id_file_name(id)
        \o unwrap_or(suffix, "") \o "\")\n"

\* variant: the root link written with the sibling form of the path
link_root_as_sibling(id, suffix) ==
    "return require(\"../../" \o package_id_file_name(id)
        \o unwrap_or(suffix, "") \o "\")\n"

link_root_same_index(id, suffix) ==
    "return require(\"_index/" \o package_id_file_name(id)
        \o unwrap_or(suffix, "") \o "\")\n"

\* ------------------------------------------------------------------------
\* The entry-point scan of the two link writers (one loop in each)
\* ------------------------------------------------------------------------
\* variant: the scan also stops at the first src/ entry point
RECURSIVE RootScanStopsAtSrc(_, _, _)
RootScanStopsAtSrc(file_names, i, suffix) ==
    IF i > Len(file_names) THEN suffix
    ELSE IF file_names[i] = "init.luau" \/ file_names[i] = "init.lua"
         THEN Some("")
    ELSE IF file_names[i] = "src/init.luau" \/ file_names[i] = "src/init.lua"
         THEN Some("/src")
    ELSE RootScanStopsAtSrc(file_names, i + 1, suffix)

RECURSIVE RootScan(_, _, _)
RootScan(file_names, i, suffix) ==
    IF i > Len(file_names) THEN suffix
    ELSE IF file_names[i] = "init.luau" \/ file_names[i] = "init.lua"
         THEN Some("")
    ELSE IF file_names[i] = "src/init.luau" \/ file_names[i] = "src/init.lua"
         THEN RootScan(file_names, i + 1, Some("/src"))
    ELSE RootScan(file_names, i + 1, suffix)

RootSniff(file_names) == RootScan(file_names, 1, None)

RECURSIVE SiblingScan(_, _, _)
SiblingScan(file_names, i, suffix) ==
    IF i > Len(file_names) THEN suffix
    ELSE IF file_names[i] = "init.luau" \/ file_names[i] = "init.lua"
         THEN Some("")
    ELSE IF file_names[i] = "src/init.luau" \/ file_names[i] = "src/init.lua"
         THEN SiblingScan(file_names, i + 1, Some("/src"))
    ELSE SiblingScan(file_names, i + 1, suffix)

SiblingSniff(file_names) == SiblingScan(file_names, 1, None)

\* ------------------------------------------------------------------------
\* The filesystem operations the code calls
\* ------------------------------------------------------------------------
Prefixes(path) == {SubSeq(path, 1, n) : n \in 1..Len(path)}

\* fs::create_dir_all: the directory and all its ancestors
create_dir_all(ds, path) == ds \cup Prefixes(path)

\* variant: the text is added to the end of a file that is already there
fs_write_appending(fm, path, contents) ==
    [p \in (DOMAIN fm) \cup {path} |->
        IF p # path THEN fm[p]
        ELSE IF path \in DOMAIN fm THEN fm[path] \o contents
        ELSE contents]

\* fs::write: create or overwrite one file
fs_write(fm, path, contents) ==
    [p \in (DOMAIN fm) \cup {path} |-> IF p = path THEN contents ELSE fm[p]]

\* ------------------------------------------------------------------------
\* Inputs: package identities, registries, archive listings, resolved graphs
\* ------------------------------------------------------------------------
PkgR == [scope |-> "acme", name |-> "root", version |-> "0.1.0"]
PkgA == [scope |-> "acme", name |-> "a", version |-> "1.0.0"]
PkgB == [scope |-> "acme", name |-> "b", version |-> "2.0.0"]

Registries == {"r1", "r2"}

\* archive listings a registry may serve (one for each outcome of the scan,
\* the last with a src/ entry ahead of the root-level one)
Listings ==
    { <<"README.md">>,
      <<"src/init.lua", "default.project.json">>,
      <<"src/init.luau", "init.lua">> }

\* the shared-realm edges (owner, alias, dependency) a resolved graph draws from
Edges ==
    { <<PkgR, "Foo", PkgA>>, <<PkgA, "Bar", PkgB>>, <<PkgB, "Foo", PkgA>> }

Owners(es) == {e[1] : e \in es}

\* Resolve::shared_dependencies built from a set of edges
DepsOf(es) ==
    [o \in Owners(es) |->
        [a \in {e[2] : e \in {x \in es : x[1] = o}} |->
            (CHOOSE e \in es : e[1] = o /\ e[2] = a)[3]]]

\* the iteration orders of a set: all sequences that list it exactly once
Orders(S) ==
    {s \in [1..Cardinality(S) -> S] : \A i, j \in DOMAIN s : i # j => s[i] # s[j]}

\* the registry configurations: PkgB's registry, and the registries configured
RegistryConfigs ==
    { [b |-> "r1", sources |-> {"r1"}],
      [b |-> "r2", sources |-> {"r1", "r2"}],
      [b |-> "r2", sources |-> {"r1"}] }

\* ------------------------------------------------------------------------
\* State
\* ------------------------------------------------------------------------
VARIABLES
    resolved,         \* Resolve: activated, shared_dependencies, metadata
    root_package_id,  \* the root PackageId
    sources,          \* PackageSourceMap: the registries that have a source
    archive,          \* what each registry serves, fixed once first fetched
    order,            \* iteration order of resolved.activated
    idx,              \* number of packages the for loop has fully handled
    pc,               \* position of install
    todo,             \* aliases the running link writer has still to write
    handles,          \* Vec of the spawned units, as their package ids
    unit,             \* per spawned package: state and result of its unit
    joined,           \* number of handles the join loop has consumed
    num_packages,     \* handles.len() taken at line 145
    err,              \* the error install returned, <<>> if none
    bar,              \* the progress bar: len, pos, finished
    reported,         \* the count logged on success, -1 before
    dirs,             \* directories on disk
    files,            \* link files on disk: path -> contents
    unpacked,         \* unpacked archives on disk: directory -> what landed
    file_names,       \* listing handed to the entry-point scans
    root_suffix,      \* result of the root link writer's scan, <<"?">> before
    sibling_suffix,   \* result of the sibling link writer's scan
    op_log,           \* outcomes of the clean and install calls that returned
    removals,         \* outcomes of the removals of the clean call under way
    snapshot          \* the disk as the previous successful install left it

vars == <<resolved, root_package_id, sources, archive, order, idx, pc, todo,
          handles, unit, joined, num_packages, err, bar, reported, dirs,
          files, unpacked, file_names, root_suffix, sibling_suffix,
          op_log, removals, snapshot>>

inputVars == <<resolved, root_package_id, sources, order>>
sniffVars == <<file_names, root_suffix, sibling_suffix>>
diskVars == <<dirs, files, unpacked>>
lifeVars == <<op_log, removals, snapshot>>

NoError == <<>>
NotScanned == <<"?">>

EmptyFn == [x \in {} |-> x]

\* the state install starts from, for one choice of its arguments
Start(res, root, srcs, ord) ==
    /\ resolved = res
    /\ root_package_id = root
    /\ sources = srcs
    /\ order = ord
    /\ archive = EmptyFn
    /\ idx = 0
    /\ pc = "enum"
    /\ todo = {}
    /\ handles = <<>>
    /\ unit = EmptyFn
    /\ joined = 0
    /\ num_packages = 0
    /\ err = NoError
    /\ bar = [len |-> Cardinality(res.activated) - 1, pos |-> 0, finished |-> FALSE]
    /\ reported = -1
    /\ dirs = {}
    /\ files = EmptyFn
    /\ unpacked = EmptyFn
    /\ op_log = <<>>
    /\ removals = <<>>
    /\ snapshot = <<>>

\* no listing has been handed to the scans on their own
NoScan ==
    /\ file_names = <<>>
    /\ root_suffix = NotScanned
    /\ sibling_suffix = NotScanned

Init ==
    /\ NoScan
    /\ \E act \in {{PkgR}, {PkgR, PkgA}, {PkgR, PkgA, PkgB}} :
       \E es \in SUBSET Edges :
       \E rc \in RegistryConfigs :
       \E ord \in Orders(act) :
        Start([activated |-> act,
               shared_dependencies |-> DepsOf(es),
               metadata |-> [p \in {PkgR, PkgA, PkgB} |->
                   [source_registry |-> IF p = PkgB THEN rc.b ELSE "r1",
                    realm |-> "Shared"]]],
              PkgR, rc.sources, ord)

\* ------------------------------------------------------------------------
\* Collaborators: the registries and the source map
\* ------------------------------------------------------------------------

\* the listings download_package(id) on registry reg may return: what the
\* registry served before, or any listing if it has not been asked yet
Served(reg, id) ==
    IF <<reg, id>> \in DOMAIN archive THEN {archive[<<reg, id>>]} ELSE Listings

Reveal(reg, id, l) ==
    [k \in (DOMAIN archive) \cup {<<reg, id>>} |->
        IF k = <<reg, id>> THEN l ELSE archive[k]]

\* resolved.shared_dependencies.get(&package_id)
HasDeps(p) == p \in DOMAIN resolved.shared_dependencies
shared_deps(p) == resolved.shared_dependencies[p]

source_registry(p) == resolved.metadata[p].source_registry

Current == order[idx + 1]

\* install returns Err(e) through a `?`
Fail(e) == /\ pc' = "Failed"
           /\ err' = e

\* ------------------------------------------------------------------------
\* install: the for loop over resolved.activated
\* ------------------------------------------------------------------------

\* variant: the root is not told apart and goes on to be spawned
EnterRootAsPackage ==
    /\ pc = "enum"
    /\ idx < Len(order)
    /\ Current = root_package_id
    /\ pc' = "spawn"
    /\ UNCHANGED <<inputVars, lifeVars, sniffVars, diskVars, archive, idx, todo, handles,
                   unit, joined, num_packages, err, bar, reported>>

\* the root package's turn: write_root_package_links up to its loop
EnterRoot ==
    /\ pc = "enum"
    /\ idx < Len(order)
    /\ Current = root_package_id
    /\ IF ~HasDeps(Current)
       THEN /\ idx' = idx + 1
            /\ UNCHANGED <<pc, err, dirs, todo>>
       ELSE \E created \in BOOLEAN :
            IF ~created
            THEN /\ Fail(<<"link", "create_dir_all", "packages">>)
                 /\ UNCHANGED <<idx, dirs, todo>>
            ELSE /\ dirs' = create_dir_all(dirs, root_base_path("Shared"))
                 /\ todo' = DOMAIN shared_deps(Current)
                 /\ IF todo' = {}
                    THEN idx' = idx + 1 /\ pc' = "enum"
                    ELSE idx' = idx /\ pc' = "root_links"
                 /\ UNCHANGED err
    /\ UNCHANGED <<inputVars, lifeVars, sniffVars, archive, handles, unit, joined,
                   num_packages, bar, reported, files, unpacked>>

\* one iteration of the loop of write_root_package_links
RootLinkStep ==
    /\ pc = "root_links"
    /\ \E dep_name \in todo :
        LET dep_package_id == shared_deps(Current)[dep_name]
            path == root_base_path("Shared") \o <<dep_name \o ".lua">>
            reg == source_registry(dep_package_id)
        IN  IF reg \notin sources
            THEN /\ pc' = "Panicked"
                 /\ UNCHANGED <<err, archive, files, todo, idx>>
            ELSE \E outcome \in {"ok", "fetch", "archive", "write"} :
                 \E l \in Served(reg, dep_package_id) :
                 IF outcome = "fetch"
                 THEN /\ Fail(<<"link", "fetch", package_id_file_name(dep_package_id)>>)
                      /\ UNCHANGED <<archive, files, todo, idx>>
                 ELSE /\ archive' = Reveal(reg, dep_package_id, l)
                      /\ IF outcome # "ok"
                         THEN /\ Fail(<<"link", outcome, package_id_file_name(dep_package_id)>>)
                              /\ UNCHANGED <<files, todo, idx>>
                         ELSE /\ files' = fs_write(files, path,
                                    link_root_same_index(dep_package_id, RootSniff(l)))
                              /\ todo' = todo \ {dep_name}
                              /\ IF todo' = {}
                                 THEN idx' = idx + 1 /\ pc' = "enum"
                                 ELSE idx' = idx /\ pc' = "root_links"
                              /\ UNCHANGED err
    /\ UNCHANGED <<inputVars, lifeVars, sniffVars, handles, unit, joined, num_packages,
                   bar, reported, dirs, unpacked>>

\* variant: the unit of a non-root package is enqueued without its links
EnterPackageSpawnsFirst ==
    /\ pc = "enum"
    /\ idx < Len(order)
    /\ Current # root_package_id
    /\ pc' = "spawn"
    /\ UNCHANGED <<inputVars, lifeVars, sniffVars, diskVars, archive, idx, todo,
                   handles, unit, joined, num_packages, err, bar, reported>>

\* a non-root package's turn: write_package_links up to its loop
EnterPackage ==
    /\ pc = "enum"
    /\ idx < Len(order)
    /\ Current # root_package_id
    /\ IF ~HasDeps(Current)
       THEN /\ pc' = "spawn"
            /\ UNCHANGED <<err, dirs, todo>>
       ELSE \E created \in BOOLEAN :
            LET base_path == index_base_path("Shared")
                                \o <<package_id_file_name(Current)>>
            IN  IF ~created
                THEN /\ Fail(<<"link", "create_dir_all", package_id_file_name(Current)>>)
                     /\ UNCHANGED <<dirs, todo>>
                ELSE /\ dirs' = create_dir_all(dirs, base_path)
                     /\ IF source_registry(Current) \notin sources
                        THEN pc' = "Panicked" /\ UNCHANGED todo
                        ELSE /\ todo' = DOMAIN shared_deps(Current)
                             /\ pc' = IF todo' = {} THEN "spawn" ELSE "package_links"
                     /\ UNCHANGED err
    /\ UNCHANGED <<inputVars, lifeVars, sniffVars, archive, idx, handles, unit, joined,
                   num_packages, bar, reported, files, unpacked>>

\* variant: the link writer and the unit of a package share one fetch, so the
\* sniffing fetch has the outcome the unit's fetch had
SharedFetchOutcomes(dep) ==
    IF dep \in DOMAIN unit /\ unit[dep].state \in {"downloaded", "finished"}
    THEN IF unit[dep].result = <<"Err", <<"unit", "fetch", package_id_file_name(dep)>> >>
         THEN {"create_dir_all", "fetch"}
         ELSE {"ok", "create_dir_all", "archive", "write"}
    ELSE {"ok", "create_dir_all", "fetch", "archive", "write"}

PackageLinkStepSharedFetch ==
    /\ pc = "package_links"
    /\ \E dep_name \in todo :
        LET dep_package_id == shared_deps(Current)[dep_name]
            base_path == index_base_path("Shared")
                            \o <<package_id_file_name(Current)>>
            path == base_path \o <<"packages", dep_name \o ".lua">>
            reg == source_registry(Current)
        IN  \E outcome \in SharedFetchOutcomes(dep_package_id) :
            \E l \in Served(reg, dep_package_id) :
            IF outcome = "create_dir_all"
            THEN /\ Fail(<<"link", outcome, package_id_file_name(dep_package_id)>>)
                 /\ UNCHANGED <<dirs, archive, files, todo>>
            ELSE /\ dirs' = create_dir_all(dirs, base_path \o <<"packages">>)
                 /\ IF outcome = "fetch"
                    THEN /\ Fail(<<"link", outcome, package_id_file_name(dep_package_id)>>)
                         /\ UNCHANGED <<archive, files, todo>>
                    ELSE /\ archive' = Reveal(reg, dep_package_id, l)
                         /\ IF outcome # "ok"
                            THEN /\ Fail(<<"link", outcome, package_id_file_name(dep_package_id)>>)
                                 /\ UNCHANGED <<files, todo>>
                            ELSE /\ files' = fs_write(files, path,
                                      link_sibling_same_index(dep_package_id, SiblingSniff(l)))
                                 /\ todo' = todo \ {dep_name}
                                 /\ pc' = IF todo' = {} THEN "spawn" ELSE "package_links"
                                 /\ UNCHANGED err
    /\ UNCHANGED <<inputVars, lifeVars, sniffVars, idx, handles, unit, joined,
                   num_packages, bar, reported, unpacked>>

\* one iteration of the loop of write_package_links
PackageLinkStep ==
    /\ pc = "package_links"
    /\ \E dep_name \in todo :
        LET dep_package_id == shared_deps(Current)[dep_name]
            base_path == index_base_path("Shared")
                            \o <<package_id_file_name(Current)>>
            path == base_path \o <<"packages", dep_name \o ".lua">>
            reg == source_registry(Current)
        IN  \E outcome \in {"ok", "create_dir_all", "fetch", "archive", "write"} :
            \E l \in Served(reg, dep_package_id) :
            IF outcome = "create_dir_all"
            THEN /\ Fail(<<"link", outcome, package_id_file_name(dep_package_id)>>)
                 /\ UNCHANGED <<dirs, archive, files, todo>>
            ELSE /\ dirs' = create_dir_all(dirs, base_path \o <<"packages">>)
                 /\ IF outcome = "fetch"
                    THEN /\ Fail(<<"link", outcome, package_id_file_name(dep_package_id)>>)
                         /\ UNCHANGED <<archive, files, todo>>
                    ELSE /\ archive' = Reveal(reg, dep_package_id, l)
                         /\ IF outcome # "ok"
                            THEN /\ Fail(<<"link", outcome, package_id_file_name(dep_package_id)>>)
                                 /\ UNCHANGED <<files, todo>>
                            ELSE /\ files' = fs_write(files, path,
                                      link_sibling_same_index(dep_package_id, SiblingSniff(l)))
                                 /\ todo' = todo \ {dep_name}
                                 /\ pc' = IF todo' = {} THEN "spawn" ELSE "package_links"
                                 /\ UNCHANGED err
    /\ UNCHANGED <<inputVars, lifeVars, sniffVars, idx, handles, unit, joined,
                   num_packages, bar, reported, unpacked>>

\* runtime.spawn_blocking(...) and handles.push(handle)
Spawn ==
    /\ pc = "spawn"
    /\ handles' = Append(handles, Current)
    /\ unit' = [p \in (DOMAIN unit) \cup {Current} |->
                  IF p = Current
                  THEN [state |-> "queued", result |-> <<>>, contents |-> <<>>,
                        source_registry |-> source_registry(Current)]
                  ELSE unit[p]]
    /\ idx' = idx + 1
    /\ pc' = "enum"
    /\ UNCHANGED <<inputVars, lifeVars, sniffVars, diskVars, archive, todo, joined,
                   num_packages, err, bar, reported>>

\* the for loop is exhausted: let num_packages = handles.len()
EndEnumeration ==
    /\ pc = "enum"
    /\ idx = Len(order)
    /\ num_packages' = Len(handles)
    /\ pc' = "join"
    /\ UNCHANGED <<inputVars, lifeVars, sniffVars, diskVars, archive, idx, todo, handles,
                   unit, joined, err, bar, reported>>

\* ------------------------------------------------------------------------
\* install: the join loop and the end
\* ------------------------------------------------------------------------

\* variant: the result of the unit is dropped instead of propagated
JoinNextIgnoresErr ==
    /\ pc = "join"
    /\ joined < Len(handles)
    /\ LET u == unit[handles[joined + 1]]
       IN  /\ u.state = "finished"
           /\ IF u.result = <<"Panic">>
              THEN pc' = "Panicked" /\ UNCHANGED <<joined, err>>
              ELSE joined' = joined + 1 /\ UNCHANGED <<pc, err>>
    /\ UNCHANGED <<inputVars, lifeVars, sniffVars, diskVars, archive, idx, todo, handles,
                   unit, num_packages, bar, reported>>

\* variant: the join returns the error of whichever unit is seen failed first
JoinNextAnyFailed ==
    /\ pc = "join"
    /\ joined < Len(handles)
    /\ \E k \in (joined + 1)..Len(handles) :
        LET u == unit[handles[k]]
        IN  /\ u.state = "finished"
            /\ IF u.result = <<"Ok">>
               THEN k = joined + 1 /\ joined' = joined + 1 /\ UNCHANGED <<pc, err>>
               ELSE IF u.result = <<"Panic">>
               THEN pc' = "Panicked" /\ UNCHANGED <<joined, err>>
               ELSE pc' = "Failed" /\ err' = u.result[2] /\ UNCHANGED joined
    /\ UNCHANGED <<inputVars, lifeVars, sniffVars, diskVars, archive, idx, todo, handles,
                   unit, num_packages, bar, reported>>

\* variant: a failed unit's index directory is removed before returning
JoinNextWithCleanup ==
    /\ pc = "join"
    /\ joined < Len(handles)
    /\ LET u == unit[handles[joined + 1]]
           path == shared_index_dir \o <<package_id_file_name(handles[joined + 1])>>
       IN  /\ u.state = "finished"
           /\ IF u.result = <<"Ok">>
              THEN joined' = joined + 1 /\ UNCHANGED <<pc, err, diskVars>>
              ELSE IF u.result = <<"Panic">>
              THEN pc' = "Panicked" /\ UNCHANGED <<joined, err, diskVars>>
              ELSE /\ pc' = "Failed"
                   /\ err' = u.result[2]
                   /\ dirs' = dirs \ {path}
                   /\ unpacked' = [d \in (DOMAIN unpacked) \ {path} |-> unpacked[d]]
                   /\ UNCHANGED <<joined, files>>
    /\ UNCHANGED <<inputVars, lifeVars, sniffVars, archive, idx, todo, handles,
                   unit, num_packages, bar, reported>>

\* runtime.block_on(handle).expect(...)? for the next handle, once it finished
JoinNext ==
    /\ pc = "join"
    /\ joined < Len(handles)
    /\ LET u == unit[handles[joined + 1]]
       IN  /\ u.state = "finished"
           /\ IF u.result = <<"Ok">>
              THEN joined' = joined + 1 /\ UNCHANGED <<pc, err>>
              ELSE IF u.result = <<"Panic">>
              THEN pc' = "Panicked" /\ UNCHANGED <<joined, err>>
              ELSE Fail(u.result[2]) /\ UNCHANGED joined
    /\ UNCHANGED <<inputVars, lifeVars, sniffVars, diskVars, archive, idx, todo, handles,
                   unit, num_packages, bar, reported>>

\* variant: success is reported without the join loop having run out
FinishEarly ==
    /\ pc = "join"
    /\ joined <= Len(handles)
    /\ bar' = [bar EXCEPT !.finished = TRUE]
    /\ reported' = num_packages
    /\ pc' = "Done"
    /\ UNCHANGED <<inputVars, lifeVars, sniffVars, diskVars, archive, idx, todo, handles,
                   unit, joined, num_packages, err>>

\* bar.finish_and_clear(), the log line and Ok(())
Finish ==
    /\ pc = "join"
    /\ joined = Len(handles)
    /\ bar' = [bar EXCEPT !.finished = TRUE]
    /\ reported' = num_packages
    /\ pc' = "Done"
    /\ UNCHANGED <<inputVars, lifeVars, sniffVars, diskVars, archive, idx, todo, handles,
                   unit, joined, num_packages, err>>

\* ------------------------------------------------------------------------
\* The blocking pool of the runtime and the spawned units
\* ------------------------------------------------------------------------

\* units a pool thread is executing: inside the closure of spawn_blocking
InFlight == {p \in DOMAIN unit : unit[p].state \in {"running", "downloaded"}}

\* the runtime built at lines 92-96 bounds the threads that run spawn_blocking
\* closures by max_blocking_threads, which the builder call leaves at its
\* default; worker_threads sizes the async workers, which run none of them
thread_cap == MaxBlockingThreads

Queued(k) == unit[handles[k]].state = "queued"

\* a pool thread takes the oldest queued closure
UnitStart ==
    /\ \E k \in 1..Len(handles) :
        /\ Queued(k)
        /\ \A j \in 1..(k - 1) : ~Queued(j)
        /\ Cardinality(InFlight) < thread_cap
        /\ unit' = [unit EXCEPT ![handles[k]].state = "running"]
    /\ UNCHANGED <<inputVars, lifeVars, sniffVars, diskVars, archive, idx, pc, todo,
                   handles, joined, num_packages, err, bar, reported>>

\* variant: the bar is advanced before the result of the download is looked at
UnitDownloadCountsAttempt(p) ==
    /\ unit[p].state = "running"
    /\ LET reg == unit[p].source_registry
       IN  IF reg \notin sources
           THEN /\ unit' = [unit EXCEPT ![p].state = "finished",
                                        ![p].result = <<"Panic">>]
                /\ UNCHANGED <<archive, bar>>
           ELSE \E fetched \in BOOLEAN :
                \E l \in Served(reg, p) :
                IF ~fetched
                THEN /\ unit' = [unit EXCEPT
                            ![p].state = "finished",
                            ![p].result = <<"Err", <<"unit", "fetch", package_id_file_name(p)>> >>]
                     /\ bar' = [bar EXCEPT !.pos = bar.pos + 1]
                     /\ UNCHANGED archive
                ELSE /\ archive' = Reveal(reg, p, l)
                     /\ bar' = [bar EXCEPT !.pos = bar.pos + 1]
                     /\ unit' = [unit EXCEPT ![p].state = "downloaded",
                                             ![p].contents = l]
    /\ UNCHANGED <<inputVars, lifeVars, sniffVars, diskVars, idx, pc, todo, handles,
                   joined, num_packages, err, reported>>

\* the closure up to b.inc(1): registry lookup, download, progress
UnitDownload(p) ==
    /\ unit[p].state = "running"
    /\ LET reg == unit[p].source_registry
       IN  IF reg \notin sources
           THEN /\ unit' = [unit EXCEPT ![p].state = "finished",
                                        ![p].result = <<"Panic">>]
                /\ UNCHANGED <<archive, bar>>
           ELSE \E fetched \in BOOLEAN :
                \E l \in Served(reg, p) :
                IF ~fetched
                THEN /\ unit' = [unit EXCEPT
                            ![p].state = "finished",
                            ![p].result = <<"Err", <<"unit", "fetch", package_id_file_name(p)>> >>]
                     /\ UNCHANGED <<archive, bar>>
                ELSE /\ archive' = Reveal(reg, p, l)
                     /\ bar' = [bar EXCEPT !.pos = bar.pos + 1]
                     /\ unit' = [unit EXCEPT ![p].state = "downloaded",
                                             ![p].contents = l]
    /\ UNCHANGED <<inputVars, lifeVars, sniffVars, diskVars, idx, pc, todo, handles,
                   joined, num_packages, err, reported>>

\* context.write_contents(&package_id, &contents, Realm::Shared)
write_contents(p, contents, realm) ==
    \E outcome \in {"ok", "create_dir_all", "unpack"} :
    LET path == index_base_path(realm) \o <<package_id_file_name(p)>>
    IN  IF outcome = "create_dir_all"
        THEN /\ unit' = [unit EXCEPT
                    ![p].state = "finished",
                    ![p].result = <<"Err", <<"unit", outcome, package_id_file_name(p)>> >>]
             /\ UNCHANGED <<dirs, unpacked>>
        ELSE /\ dirs' = create_dir_all(dirs, path)
             /\ unpacked' = [d \in (DOMAIN unpacked) \cup {path} |->
                    IF d = path
                    THEN [names |-> contents, complete |-> outcome = "ok"]
                    ELSE unpacked[d]]
             /\ unit' = [unit EXCEPT
                    ![p].state = "finished",
                    ![p].result = IF outcome = "ok" THEN <<"Ok">>
                        ELSE <<"Err", <<"unit", outcome, package_id_file_name(p)>> >>]

\* variant: the unit materializes into the realm the graph gives the package
UnitWriteContentsIntoOwnRealm(p) ==
    /\ unit[p].state = "downloaded"
    /\ write_contents(p, unit[p].contents, resolved.metadata[p].realm)
    /\ UNCHANGED <<inputVars, lifeVars, sniffVars, files, archive, idx, pc, todo,
                   handles, joined, num_packages, err, bar, reported>>

\* the rest of the closure: write_contents, whose result is the unit's
UnitWriteContents(p) ==
    /\ unit[p].state = "downloaded"
    /\ write_contents(p, unit[p].contents, "Shared")
    /\ UNCHANGED <<inputVars, lifeVars, sniffVars, files, archive, idx, pc, todo, handles,
                   joined, num_packages, err, bar, reported>>

Orchestrator ==
    \/ EnterRoot
    \/ RootLinkStep
    \/ EnterPackage
    \/ PackageLinkStep
    \/ Spawn
    \/ EndEnumeration
    \/ JoinNext
    \/ Finish

Units ==
    \/ UnitStart
    \/ \E p \in DOMAIN unit : UnitDownload(p)
    \/ \E p \in DOMAIN unit : UnitWriteContents(p)

Next == Orchestrator \/ Units

Spec == Init /\ [][Next]_vars

\* ------------------------------------------------------------------------
\* The entry-point scans on their own, over every listing up to MaxLen
\* ------------------------------------------------------------------------
FileNames == {"init.lua", "init.luau", "src/init.lua", "src/init.luau", "README.md"}

AllListings == UNION {[1..n -> FileNames] : n \in 0..MaxLen}

InitSniff ==
    /\ \E l \in AllListings : file_names = l
    /\ root_suffix = NotScanned
    /\ sibling_suffix = NotScanned
    /\ Start([activated |-> {PkgR},
              shared_dependencies |-> EmptyFn,
              metadata |-> [p \in {PkgR} |->
                  [source_registry |-> "r1", realm |-> "Shared"]]],
             PkgR, {"r1"}, <<PkgR>>)

\* lines 212-222 applied to the listing
ScanForRootLink ==
    /\ root_suffix = NotScanned
    /\ root_suffix' = RootSniff(file_names)
    /\ UNCHANGED <<inputVars, lifeVars, diskVars, archive, idx, pc, todo, handles, unit,
                   joined, num_packages, err, bar, reported, file_names,
                   sibling_suffix>>

\* lines 269-279 applied to the listing
ScanForSiblingLink ==
    /\ sibling_suffix = NotScanned
    /\ sibling_suffix' = SiblingSniff(file_names)
    /\ UNCHANGED <<inputVars, lifeVars, diskVars, archive, idx, pc, todo, handles, unit,
                   joined, num_packages, err, bar, reported, file_names,
                   root_suffix>>

NextSniff == ScanForRootLink \/ ScanForSiblingLink

SpecSniff == InitSniff /\ [][NextSniff]_vars

\* ------------------------------------------------------------------------
\* The wide workload: a root and BurstPackages packages without dependencies,
\* all enumerated and started while every download is still blocked on the
\* network.  Each step is a step of Next, so each behaviour of SpecBurst is a
\* behaviour of install on this input.
\* ------------------------------------------------------------------------
Leaf(n) == [scope |-> "acme", name |-> "leaf" \o ToString(n), version |-> "1.0.0"]

Leaves == {Leaf(n) : n \in 1..BurstPackages}

InitBurst ==
    /\ NoScan
    /\ Start([activated |-> {PkgR} \cup Leaves,
              shared_dependencies |-> EmptyFn,
              metadata |-> [p \in {PkgR} \cup Leaves |->
                  [source_registry |-> "r1", realm |-> "Shared"]]],
             PkgR, {"r1"},
             [i \in 1..(BurstPackages + 1) |->
                 IF i = 1 THEN PkgR ELSE Leaf(i - 1)])

NextBurst ==
    \/ EnterRoot
    \/ EnterPackage
    \/ Spawn
    \/ EndEnumeration
    \/ UnitStart

SpecBurst == InitBurst /\ [][NextBurst]_vars

\* ------------------------------------------------------------------------
\* clean() and a sequence of calls on one project directory
\* ------------------------------------------------------------------------

\* most clean and install calls one behaviour makes
MaxCalls == 2

\* path lies in the tree of root
Under(path, root) ==
    /\ Len(path) >= Len(root)
    /\ SubSeq(path, 1, Len(root)) = root

\* variant: clean empties the three indexes and leaves the link files
clean_targets_index_only == <<shared_index_dir, server_index_dir, dev_index_dir>>

\* the three removals of clean, in the order of lines 65-67
clean_targets == <<shared_dir, server_dir, dev_dir>>

\* variant: NotFound is propagated like any other error
remove_propagates_not_found(reported_outcome) ==
    IF reported_outcome = "removed" THEN "Ok" ELSE "Err"

\* remove_ignore_not_found: the result it makes of what remove_dir_all reports
remove_ignore_not_found(reported_outcome) ==
    IF reported_outcome = "removed" THEN "Ok"
    ELSE IF reported_outcome = "not_found" THEN "Ok"
    ELSE "Err"

\* what remove_dir_all may report for a target: success or an error if the
\* directory is there (an error may leave it half removed), NotFound or
\* another error if it is not
RemovalOutcomes(target) ==
    IF target \in dirs THEN {"removed", "error", "error_partial"}
    ELSE {"not_found", "error"}

\* the disks a project directory may hold when the first call is made
StaleDisks ==
    { [dirs |-> {}, files |-> EmptyFn, unpacked |-> EmptyFn],
      [dirs |-> {server_dir, server_index_dir},
       files |-> (<<"ServerPackages", "Old.lua">> :> "return require(\"_index/acme_old@0.9.0\")\n"),
       unpacked |-> EmptyFn],
      [dirs |-> {shared_dir, shared_index_dir,
                 shared_index_dir \o <<"acme_old@0.9.0">>,
                 server_dir, server_index_dir,
                 server_index_dir \o <<"acme_a@1.0.0">>,
                 dev_dir},
       files |-> (<<"packages", "Old.lua">> :> "return require(\"_index/acme_old@0.9.0\")\n")
                 @@ (<<"DevPackages", "Foo.lua">> :> "return require(\"_index/acme_a@0.5.0\")\n"),
       unpacked |-> (shared_index_dir \o <<"acme_old@0.9.0">>
                        :> [names |-> <<"init.lua">>, complete |-> TRUE])
                    @@ (server_index_dir \o <<"acme_a@1.0.0">>
                        :> [names |-> <<"init.lua">>, complete |-> TRUE])] }

\* the iteration orders of the activated set that SpecLife starts from
LifeOrders == {<<PkgA, PkgB, PkgR>>, <<PkgR, PkgB, PkgA>>}

\* the calls that have returned successfully, the one pc stands after included
Returned ==
    IF pc = "Done" THEN Append(op_log, "install")
    ELSE IF pc = "cleaned" THEN Append(op_log, "clean")
    ELSE op_log

\* the caller may make its next call
CallerReady ==
    /\ pc \in {"idle", "Done", "cleaned"}
    /\ Len(Returned) < MaxCalls

InitLife ==
    /\ NoScan
    /\ pc = "idle"
    /\ \E disk \in StaleDisks :
          /\ dirs = disk.dirs
          /\ files = disk.files
          /\ unpacked = disk.unpacked
    /\ \E ord \in LifeOrders : order = ord
    /\ resolved = [activated |-> {PkgR, PkgA, PkgB},
                   shared_dependencies |-> DepsOf(Edges),
                   metadata |-> (PkgR :> [source_registry |-> "r1", realm |-> "Shared"])
                             @@ (PkgA :> [source_registry |-> "r1", realm |-> "Server"])
                             @@ (PkgB :> [source_registry |-> "r2", realm |-> "Dev"])]
    /\ root_package_id = PkgR
    /\ sources = {"r1", "r2"}
    /\ archive = EmptyFn
    /\ idx = 0
    /\ todo = {}
    /\ handles = <<>>
    /\ unit = EmptyFn
    /\ joined = 0
    /\ num_packages = 0
    /\ err = NoError
    /\ bar = [len |-> 0, pos |-> 0, finished |-> FALSE]
    /\ reported = -1
    /\ op_log = <<>>
    /\ removals = <<>>
    /\ snapshot = <<>>

\* the caller calls clean()
BeginClean ==
    /\ CallerReady
    /\ op_log' = Returned
    /\ removals' = <<>>
    /\ pc' = "clean"
    /\ UNCHANGED <<inputVars, sniffVars, diskVars, archive, idx, todo, handles,
                   unit, joined, num_packages, err, bar, reported, snapshot>>

\* one remove_ignore_not_found(...)? of clean, or its Ok(()) after the third
CleanStep ==
    /\ pc = "clean"
    /\ LET target == clean_targets[Len(removals) + 1]
       IN  \E outcome \in RemovalOutcomes(target) :
             /\ removals' = Append(removals, outcome)
             /\ pc' = IF remove_ignore_not_found(outcome) = "Err" THEN "clean_failed"
                      ELSE IF Len(removals') = Len(clean_targets) THEN "cleaned"
                      ELSE "clean"
             /\ dirs' = IF outcome = "removed"
                        THEN {d \in dirs : ~Under(d, target)} ELSE dirs
             /\ files' = IF outcome \in {"removed", "error_partial"}
                         THEN [f \in {g \in DOMAIN files : ~Under(g, target)} |-> files[f]]
                         ELSE files
             /\ unpacked' = IF outcome = "removed"
                            THEN [d \in {g \in DOMAIN unpacked : ~Under(g, target)} |->
                                    unpacked[d]]
                            ELSE unpacked
    /\ UNCHANGED <<inputVars, sniffVars, archive, idx, todo, handles, unit,
                   joined, num_packages, err, bar, reported, op_log, snapshot>>

\* the caller calls install(sources, root_package_id, resolved): lines 80-96
BeginInstall ==
    /\ CallerReady
    /\ op_log' = Returned
    /\ snapshot' = IF pc = "Done"
                   THEN [dirs |-> dirs, files |-> files, unpacked |-> unpacked]
                   ELSE snapshot
    /\ idx' = 0
    /\ pc' = "enum"
    /\ todo' = {}
    /\ handles' = <<>>
    /\ unit' = EmptyFn
    /\ joined' = 0
    /\ num_packages' = 0
    /\ err' = NoError
    /\ bar' = [len |-> Cardinality(resolved.activated) - 1, pos |-> 0,
               finished |-> FALSE]
    /\ reported' = -1
    /\ UNCHANGED <<inputVars, sniffVars, diskVars, archive, removals>>

Caller == BeginClean \/ CleanStep \/ BeginInstall

NextLife == Caller \/ Orchestrator \/ Units

SpecLife == InitLife /\ [][NextLife]_vars

\* ------------------------------------------------------------------------
\* Vocabulary of the properties, spelled out independently of the operators
\* that model the code
\* ------------------------------------------------------------------------
CanonicalId(P) == P.scope \o "_" \o P.name \o "@" \o P.version

NonRootActivated == resolved.activated \ {root_package_id}

IndexDirOf(P) == <<"packages", "_index", CanonicalId(P)>>

\* P's content has landed completely, put there by P's own unit
Landed(P) ==
    /\ P \in DOMAIN unit
    /\ unit[P].result = <<"Ok">>
    /\ IndexDirOf(P) \in dirs
    /\ IndexDirOf(P) \in DOMAIN unpacked
    /\ unpacked[IndexDirOf(P)].complete

HasRootInit(l) == \E i \in DOMAIN l : l[i] \in {"init.lua", "init.luau"}
HasSrcInit(l) == \E i \in DOMAIN l : l[i] \in {"src/init.lua", "src/init.luau"}

ExpectedSuffix(l) ==
    IF HasRootInit(l) THEN <<"">>
    ELSE IF HasSrcInit(l) THEN <<"/src">>
    ELSE <<>>

ExpectedSuffixText(l) ==
    IF HasRootInit(l) THEN "" ELSE IF HasSrcInit(l) THEN "/src" ELSE ""

RootRedirect(D, text) == "return require(\"_index/" \o CanonicalId(D) \o text \o "\")\n"
SiblingRedirect(D, text) == "return require(\"../../" \o CanonicalId(D) \o text \o "\")\n"

RootLinkPath(A) == <<"packages", A \o ".lua">>
SiblingLinkPath(O, A) == <<"packages", "_index", CanonicalId(O), "packages", A \o ".lua">>

\* the listing served for D by the registry D's own metadata designates
OwnArchiveKnown(D) == <<resolved.metadata[D].source_registry, D>> \in DOMAIN archive
OwnArchive(D) == archive[<<resolved.metadata[D].source_registry, D>>]

\* every dependency target of an activated package is activated and not the root
DepsClosed ==
    \A o \in resolved.activated \cap DOMAIN resolved.shared_dependencies :
        \A a \in DOMAIN resolved.shared_dependencies[o] :
            resolved.shared_dependencies[o][a] \in NonRootActivated

IsErr(r) == r # <<>> /\ r[1] = "Err"

\* positions in handles of the units that failed with an error
FailedUnits == {k \in 1..Len(handles) : IsErr(unit[handles[k]].result)}

Earliest(S) == CHOOSE k \in S : \A j \in S : k <= j

\* ------------------------------------------------------------------------
\* C1: when install ends Done and every dependency target of an activated
\* package is an activated non-root package, every link file on disk (root
\* level or sibling) redirects to the index directory of a package whose
\* content a unit of this run has materialized.
\* ------------------------------------------------------------------------
C1_LinksResolveAtDone ==
    (pc = "Done" /\ DepsClosed) =>
        \A f \in DOMAIN files :
            \E D \in NonRootActivated :
                /\ Landed(D)
                /\ \E text \in {"", "/src"} :
                    files[f] = IF Len(f) = 2 THEN RootRedirect(D, text)
                               ELSE SiblingRedirect(D, text)

\* a successful run that wrote a root link and a sibling link
C1_Witness ==
    /\ pc = "Done"
    /\ DepsClosed
    /\ RootLinkPath("Foo") \in DOMAIN files
    /\ SiblingLinkPath(PkgA, "Bar") \in DOMAIN files

\* C1, second half: before Done a link may exist whose target has not landed
C1_DanglingBeforeDone ==
    /\ pc \notin {"Done", "Failed", "Panicked"}
    /\ DepsClosed
    /\ RootLinkPath("Foo") \in DOMAIN files
    /\ ~Landed(PkgA)

\* ------------------------------------------------------------------------
\* C2: after a successful install every activated non-root package has
\* exactly one index directory named by its canonical identity, and that
\* directory is the one under packages/_index.
\* ------------------------------------------------------------------------
C2_OneIndexDirPerPackage ==
    pc = "Done" =>
        \A P \in NonRootActivated :
            {d \in dirs : Len(d) = 3 /\ d[2] = "_index" /\ d[3] = CanonicalId(P)}
                = {IndexDirOf(P)}

\* a successful run with two packages, one of them without dependencies
C2_Witness ==
    /\ pc = "Done"
    /\ NonRootActivated = {PkgA, PkgB}
    /\ ~HasDeps(PkgB)
    /\ IndexDirOf(PkgB) \in dirs

\* ------------------------------------------------------------------------
\* C3: after a successful install, for every shared dependency alias A -> D
\* of the root, packages/A.lua exists and holds the redirect to
\* _index/{canonical D}{suffix}, the suffix being the one the listing of D's
\* archive calls for.
\* ------------------------------------------------------------------------
C3_RootLinksWritten ==
    (pc = "Done" /\ HasDeps(root_package_id)) =>
        \A A \in DOMAIN shared_deps(root_package_id) :
            LET D == shared_deps(root_package_id)[A]
            IN  /\ OwnArchiveKnown(D)
                /\ RootLinkPath(A) \in DOMAIN files
                /\ files[RootLinkPath(A)]
                     = RootRedirect(D, ExpectedSuffixText(OwnArchive(D)))

\* a successful run whose root dependency has a src/ init listed first
C3_Witness ==
    /\ pc = "Done"
    /\ HasDeps(root_package_id)
    /\ OwnArchiveKnown(PkgA)
    /\ OwnArchive(PkgA) = <<"src/init.luau", "init.lua">>
    /\ RootLinkPath("Foo") \in DOMAIN files
    /\ Landed(PkgA)

\* ------------------------------------------------------------------------
\* C4: after a successful install, for every non-root activated owner O and
\* every shared dependency alias A -> D of O, the file
\* packages/_index/{canonical O}/packages/A.lua exists and holds the redirect
\* to ../../{canonical D}{suffix}, the suffix being the one the listing of
\* D's archive calls for.
\* ------------------------------------------------------------------------
C4_SiblingLinksWritten ==
    pc = "Done" =>
        \A O \in NonRootActivated \cap DOMAIN resolved.shared_dependencies :
            \A A \in DOMAIN shared_deps(O) :
                LET D == shared_deps(O)[A]
                IN  /\ SiblingLinkPath(O, A) \in DOMAIN files
                    /\ OwnArchiveKnown(D) =>
                         files[SiblingLinkPath(O, A)]
                            = SiblingRedirect(D, ExpectedSuffixText(OwnArchive(D)))

\* ------------------------------------------------------------------------
\* C5: on every listing both link writers compute the same suffix: empty if
\* some entry is init.lua or init.luau, wherever it stands; otherwise /src
\* if some entry is src/init.lua or src/init.luau; otherwise none, which
\* renders as the empty suffix.
\* ------------------------------------------------------------------------
C5_SuffixRule ==
    /\ root_suffix # NotScanned =>
          /\ root_suffix = ExpectedSuffix(file_names)
          /\ unwrap_or(root_suffix, "") = ExpectedSuffixText(file_names)
    /\ sibling_suffix # NotScanned =>
          /\ sibling_suffix = ExpectedSuffix(file_names)
          /\ unwrap_or(sibling_suffix, "") = ExpectedSuffixText(file_names)
    /\ (root_suffix # NotScanned /\ sibling_suffix # NotScanned) =>
          root_suffix = sibling_suffix

\* both scans ran on a listing with a src/ init ahead of a root-level init
C5_Witness ==
    /\ file_names = <<"src/init.lua", "README.md", "init.luau">>
    /\ root_suffix = <<"">>
    /\ sibling_suffix = <<"">>

\* ------------------------------------------------------------------------
\* C6: the units in flight at any moment never exceed the 50 worker threads
\* the runtime is built with.
\* ------------------------------------------------------------------------
C6_InFlightWithinWorkerThreads == Cardinality(InFlight) <= WorkerThreads

\* ------------------------------------------------------------------------
\* C7: install reports success only when every unit enqueued during the
\* enumeration, one per activated non-root package, has finished, and
\* finished successfully; none is queued or in flight then.
\* ------------------------------------------------------------------------
C7_SuccessOnlyAfterAllUnits ==
    pc = "Done" =>
        /\ joined = Len(handles)
        /\ {handles[k] : k \in 1..Len(handles)} = NonRootActivated
        /\ \A k \in 1..Len(handles) :
              /\ unit[handles[k]].state = "finished"
              /\ unit[handles[k]].result = <<"Ok">>
        /\ InFlight = {}

\* a successful run of two units
C7_Witness ==
    /\ pc = "Done"
    /\ Len(handles) = 2
    /\ reported = 2

\* ------------------------------------------------------------------------
\* C8 as stated: whenever some enqueued unit has failed, the run does not
\* end Done, and if it ends Failed the error returned is that of the
\* earliest-enqueued failed unit.
\* ------------------------------------------------------------------------
C8_ErrorOfEarliestFailedUnit ==
    FailedUnits # {} =>
        /\ pc # "Done"
        /\ pc = "Failed" =>
              err = unit[handles[Earliest(FailedUnits)]].result[2]

\* C8 amended, state part: a run with a failed unit is never Done, and an
\* error returned by the join loop is the error of the earliest-enqueued
\* failed unit, every unit enqueued before it having succeeded.
C8_JoinState ==
    /\ FailedUnits # {} => pc # "Done"
    /\ (pc = "Failed" /\ err[1] = "unit") =>
          /\ FailedUnits # {}
          /\ err = unit[handles[Earliest(FailedUnits)]].result[2]
          /\ joined = Earliest(FailedUnits) - 1
          /\ \A j \in 1..joined : unit[handles[j]].result = <<"Ok">>

\* C8 amended, step part: no retry.  A finished unit keeps its result, and
\* no package is enqueued a second time.
C8_NoRetryStep ==
    /\ \A p \in DOMAIN unit :
          unit[p].state = "finished" => (p \in DOMAIN unit' /\ unit'[p] = unit[p])
    /\ \A k \in 1..Len(handles') :
          \A j \in 1..Len(handles') : handles'[k] = handles'[j] => k = j

\* the join loop stands before a failed unit with only successes ahead of it
C8_JoinFacesFailure ==
    /\ pc = "join"
    /\ FailedUnits # {}
    /\ \A j \in 1..(Earliest(FailedUnits) - 1) : unit[handles[j]].result = <<"Ok">>

\* block_on returns once the awaited unit has finished
FairSpec == Spec /\ WF_vars(JoinNext)

\* C8 amended: if no link write failed and at least one enqueued unit fails,
\* the run never ends Done; the join loop ends it Failed with the error of
\* the earliest-enqueued failed unit, provided every unit enqueued before
\* that one succeeded; a failed unit is not retried.
C8_JoinReportsEarliestFailure ==
    /\ []C8_JoinState
    /\ [][C8_NoRetryStep]_vars
    /\ (C8_JoinFacesFailure ~> pc = "Failed")

\* the second of two units failed, the first succeeded, and the run Failed
C8_Witness ==
    /\ pc = "Failed"
    /\ Len(handles) = 2
    /\ unit[handles[1]].result = <<"Ok">>
    /\ IsErr(unit[handles[2]].result)
    /\ err = unit[handles[2]].result[2]

\* ------------------------------------------------------------------------
\* C9: nothing is rolled back on failure.  The step that makes the run
\* Failed, and every step taken while Failed, leaves every directory, every
\* link file and every unpacked (also partially unpacked) index entry that
\* was on disk in place and unmodified.
\* ------------------------------------------------------------------------
C9_NothingRolledBack ==
    [][ pc' = "Failed" =>
          /\ dirs \subseteq dirs'
          /\ \A f \in DOMAIN files : f \in DOMAIN files' /\ files'[f] = files[f]
          /\ \A d \in DOMAIN unpacked :
                d \in DOMAIN unpacked' /\ unpacked'[d] = unpacked[d] ]_vars

\* a failed run with a link file and a partially unpacked index entry on disk
C9_Witness ==
    /\ pc = "Failed"
    /\ DOMAIN files # {}
    /\ \E d \in DOMAIN unpacked : ~unpacked[d].complete /\ d \in dirs

\* ------------------------------------------------------------------------
\* C10: no unit is ever enqueued for the root; each activated package other
\* than the root gets exactly one, so once the enumeration is over the
\* number of units and the progress total are |activated| - 1, and that is
\* the count reported on success.
\* ------------------------------------------------------------------------
C10_OneUnitPerNonRoot ==
    /\ root_package_id \notin DOMAIN unit
    /\ \A k \in 1..Len(handles) :
          /\ handles[k] \in NonRootActivated
          /\ \A j \in 1..Len(handles) : handles[k] = handles[j] => k = j
    /\ pc \in {"join", "Done"} =>
          /\ {handles[k] : k \in 1..Len(handles)} = NonRootActivated
          /\ Len(handles) = Cardinality(resolved.activated) - 1
          /\ num_packages = Cardinality(resolved.activated) - 1
          /\ bar.len = Len(handles)
    /\ pc = "Done" => reported = Cardinality(resolved.activated) - 1

\* a successful run in which the root was enumerated between two packages
C10_Witness ==
    /\ pc = "Done"
    /\ Len(order) = 3
    /\ order[2] = root_package_id
    /\ reported = 2

\* ------------------------------------------------------------------------
\* C11: every step of install writes under packages/ only.  What it adds or
\* changes on disk (directory, link file, unpacked content) lies in the
\* Shared tree, and everything under ServerPackages/ and DevPackages/ stays
\* as it was, whatever realm the graph gives the packages.
\* ------------------------------------------------------------------------
OutsideShared(path) == path[1] # "packages"

C11_WritesOnlyUnderShared ==
    [][ pc # "clean" =>
          /\ \A d \in dirs' \ dirs : ~OutsideShared(d)
          /\ \A f \in DOMAIN files' :
                (f \notin DOMAIN files \/ files'[f] # files[f]) => ~OutsideShared(f)
          /\ \A d \in DOMAIN unpacked' :
                (d \notin DOMAIN unpacked \/ unpacked'[d] # unpacked[d])
                    => ~OutsideShared(d)
          /\ {d \in dirs : OutsideShared(d)} = {d \in dirs' : OutsideShared(d)}
          /\ {f \in DOMAIN files : OutsideShared(f)}
                = {f \in DOMAIN files' : OutsideShared(f)}
          /\ {d \in DOMAIN unpacked : OutsideShared(d)}
                = {d \in DOMAIN unpacked' : OutsideShared(d)} ]_vars

\* an install without a clean before it succeeded on a disk with Server and
\* Dev content, for packages the graph puts in the Server and Dev realms
C11_Witness ==
    /\ pc = "Done"
    /\ op_log = <<>>
    /\ resolved.metadata[PkgA].realm = "Server"
    /\ resolved.metadata[PkgB].realm = "Dev"
    /\ Landed(PkgA)
    /\ Landed(PkgB)
    /\ <<"DevPackages", "Foo.lua">> \in DOMAIN files
    /\ server_index_dir \o <<"acme_a@1.0.0">> \in DOMAIN unpacked

\* ------------------------------------------------------------------------
\* C12: clean treats each of the three tree roots on its own.  A missing
\* root is passed over without touching the disk and never makes clean fail;
\* clean has failed exactly when a removal reported an error other than
\* not-found; and when clean has succeeded nothing is left of packages,
\* ServerPackages and DevPackages.
\* ------------------------------------------------------------------------
IsRemovalError(o) == o \in {"error", "error_partial"}

OnDisk == dirs \cup (DOMAIN files) \cup (DOMAIN unpacked)

C12_CleanState ==
    /\ pc = "cleaned" =>
          /\ Len(removals) = 3
          /\ \A i \in 1..3 : removals[i] \in {"removed", "not_found"}
          /\ \A path \in OnDisk :
                path[1] \notin {"packages", "ServerPackages", "DevPackages"}
    /\ pc = "clean_failed" =>
          /\ removals # <<>>
          /\ IsRemovalError(removals[Len(removals)])
    /\ pc \in {"clean", "clean_failed"} =>
          \A i \in 1..(Len(removals) - 1) : ~IsRemovalError(removals[i])
    /\ pc = "clean" =>
          /\ Len(removals) < 3
          /\ \A i \in 1..Len(removals) : ~IsRemovalError(removals[i])
          /\ ENABLED (CleanStep /\ pc' # "clean_failed")

C12_CleanStep ==
    (pc = "clean" /\ Len(removals') = Len(removals) + 1) =>
        /\ removals'[Len(removals')] = "not_found" =>
              /\ clean_targets[Len(removals')] \notin dirs
              /\ UNCHANGED diskVars
        /\ clean_targets[Len(removals')] \notin dirs =>
              removals'[Len(removals')] \in {"not_found", "error"}

C12_CleanIgnoresAbsence ==
    /\ []C12_CleanState
    /\ [][C12_CleanStep]_vars

\* clean succeeded on a project that had ServerPackages only
C12_Witness ==
    /\ pc = "cleaned"
    /\ removals = <<"not_found", "removed", "not_found">>
    /\ OnDisk = {}

\* ------------------------------------------------------------------------
\* C13: when install has succeeded right after a successful clean, every
\* directory, link file and unpacked archive under packages, ServerPackages
\* and DevPackages is one this install run wrote for the resolved graph, with
\* the content this run gave it; nothing of an earlier run is left.
\* ------------------------------------------------------------------------
\* the call that returned right before the running one was a clean
AfterClean == op_log # <<>> /\ op_log[Len(op_log)] = "clean"

\* the owners of sibling links among the non-root activated packages
SiblingOwners == {O \in NonRootActivated : HasDeps(O)}

\* the directories install creates for the resolved graph
InstallDirs ==
    UNION ( {Prefixes(IndexDirOf(P)) : P \in NonRootActivated}
            \cup {Prefixes(IndexDirOf(O) \o <<"packages">>) : O \in SiblingOwners}
            \cup {Prefixes(shared_dir)} )

\* the link files install writes for the resolved graph
InstallLinks ==
    {RootLinkPath(a) : a \in DOMAIN shared_deps(root_package_id)}
    \cup UNION {{SiblingLinkPath(O, a) : a \in DOMAIN shared_deps(O)} : O \in SiblingOwners}

\* the redirect texts this run can have written into a link file
LinkTexts ==
    {RootRedirect(D, t) : D \in NonRootActivated, t \in {"", "/src"}}
    \cup {SiblingRedirect(D, t) : D \in NonRootActivated, t \in {"", "/src"}}

C13_NothingStaleAfterCleanInstall ==
    (pc = "Done" /\ AfterClean) =>
        /\ dirs \subseteq InstallDirs
        /\ DOMAIN files \subseteq InstallLinks
        /\ \A f \in DOMAIN files : files[f] \in LinkTexts
        /\ DOMAIN unpacked = {IndexDirOf(P) : P \in NonRootActivated}
        /\ \A P \in NonRootActivated :
              /\ P \in DOMAIN unit
              /\ unpacked[IndexDirOf(P)].names = unit[P].contents
              /\ unpacked[IndexDirOf(P)].complete

\* clean removed all three roots of a project that held stale links and a
\* stale index directory, and the install after it succeeded
C13_Witness ==
    /\ pc = "Done"
    /\ op_log = <<"clean">>
    /\ removals = <<"removed", "removed", "removed">>
    /\ Landed(PkgA)
    /\ Landed(PkgB)
    /\ RootLinkPath("Foo") \in DOMAIN files

\* ------------------------------------------------------------------------
\* C14: install is idempotent on the disk.  When install has succeeded a
\* second time right after a first successful install (same resolved graph,
\* same sources, the registries serving the same archives), the disk holds
\* the same directories, the same link files with the same bytes and the
\* same unpacked archives as after the first run, however the units of the
\* two runs were interleaved.
\* ------------------------------------------------------------------------
\* the call that returned right before the running one was an install
AfterInstall == op_log # <<>> /\ op_log[Len(op_log)] = "install"

IndexDirs(ds) == {d \in ds : Len(d) = 3 /\ Under(d, shared_index_dir)}

C14_SecondInstallSameDisk ==
    (pc = "Done" /\ AfterInstall) =>
        /\ IndexDirs(dirs) = IndexDirs(snapshot.dirs)
        /\ files = snapshot.files
        /\ dirs = snapshot.dirs
        /\ unpacked = snapshot.unpacked

\* two successful installs in a row, the second having rewritten links and
\* materialized both packages again
C14_Witness ==
    /\ pc = "Done"
    /\ op_log = <<"install">>
    /\ Landed(PkgA)
    /\ Landed(PkgB)
    /\ RootLinkPath("Foo") \in DOMAIN files
    /\ SiblingLinkPath(PkgA, "Bar") \in DOMAIN files
    /\ files = snapshot.files

\* ------------------------------------------------------------------------
\* C15: a package install must fetch whose metadata designates a registry
\* that has no source stops the run: install never reports success, and the
\* package is never fetched nor materialized from any other registry.
\* ------------------------------------------------------------------------
\* the activated non-root packages whose registry is absent from the source map
Unsourced == {p \in NonRootActivated : source_registry(p) \notin sources}

C15_NeverSucceeds ==
    (DepsClosed /\ Unsourced # {}) => pc # "Done"

C15_NeverFetchedElsewhere ==
    DepsClosed =>
        \A p \in Unsourced :
            /\ \A r \in Registries : <<r, p>> \notin DOMAIN archive
            /\ IndexDirOf(p) \notin DOMAIN unpacked

C15_MissingRegistryStopsRun ==
    /\ C15_NeverSucceeds
    /\ C15_NeverFetchedElsewhere

\* ------------------------------------------------------------------------
\* C16: the fetch a link writer makes to sniff D's entry point and the fetch
\* D's unit makes to materialize D are independent.  While a link to D is
\* still to be written, its sniffing fetch can fail and can succeed whatever
\* D's unit has done; a failed sniffing fetch fails the run with the link to
\* D unwritten; and no step, a failing unit's included, removes or changes a
\* link that was written.
\* ------------------------------------------------------------------------
IsSniffFetchError(e) == e # NoError /\ e[1] = "link" /\ e[2] = "fetch"

\* the link file of alias a that the package install stands at is writing
CurrentLinkPath(a) ==
    IF Current = root_package_id THEN RootLinkPath(a)
    ELSE SiblingLinkPath(Current, a)

C16_TwoFetchState ==
    /\ pc = "package_links" =>
          \A a \in todo :
              /\ ENABLED (PackageLinkStep
                            /\ err' = <<"link", "fetch",
                                        package_id_file_name(shared_deps(Current)[a])>>)
              /\ ENABLED (PackageLinkStep
                            /\ SiblingLinkPath(Current, a) \in DOMAIN files')
    /\ IsSniffFetchError(err) =>
          /\ pc = "Failed"
          /\ \E a \in todo :
                /\ package_id_file_name(shared_deps(Current)[a]) = err[3]
                /\ CurrentLinkPath(a) \notin DOMAIN files

C16_LinksStay ==
    \A f \in DOMAIN files : f \in DOMAIN files' /\ files'[f] = files[f]

C16_FetchesIndependent ==
    /\ []C16_TwoFetchState
    /\ [][C16_LinksStay]_vars

\* b's unit has materialized b, and the sniffing fetch of b for a's link failed
C16_Witness ==
    /\ pc = "Failed"
    /\ err = <<"link", "fetch", "acme_b@2.0.0">>
    /\ Landed(PkgB)
    /\ SiblingLinkPath(PkgA, "Bar") \notin DOMAIN files

\* the other direction: a's unit failed at its fetch, the links to a stand
C16_LinkOutlivesFailedUnit ==
    /\ PkgA \in DOMAIN unit
    /\ unit[PkgA].result = <<"Err", <<"unit", "fetch", "acme_a@1.0.0">> >>
    /\ RootLinkPath("Foo") \in DOMAIN files
    /\ SiblingLinkPath(PkgB, "Foo") \in DOMAIN files

\* ------------------------------------------------------------------------
\* C17: every fetch of a package D goes to the registry D's own metadata
\* designates: no registry other than that one has ever been asked for D's
\* archive, by D's unit, by the root link writer or by a sibling link writer.
\* ------------------------------------------------------------------------
\* the resolved graph is closed and every registry it names has a source
WellFormedInput ==
    /\ DepsClosed
    /\ \A p \in resolved.activated : source_registry(p) \in sources

C17_FetchesGoToOwnRegistry ==
    WellFormedInput =>
        \A k \in DOMAIN archive : k[1] = source_registry(k[2])

\* ------------------------------------------------------------------------
\* C18 (as stated): the progress counter is advanced once per unit and only
\* once the unit's package has been materialized, so the counter never
\* exceeds the number of packages whose content has landed.
\* ------------------------------------------------------------------------
C18_CounterAtMostLanded ==
    bar.pos <= Cardinality({P \in DOMAIN unit : Landed(P)})

\* ------------------------------------------------------------------------
\* C18 (amended): the progress counter is advanced once per unit, when the
\* unit's download has succeeded and before its content is written: in every
\* state it equals the number of units whose fetch has succeeded, whether or
\* not their content has landed or their write has failed.  A unit whose
\* fetch failed, or that panicked on a missing registry, never counts.
\* ------------------------------------------------------------------------
\* the unit of p got its archive
Fetched(p) ==
    \/ unit[p].state = "downloaded"
    \/ /\ unit[p].state = "finished"
       /\ \/ unit[p].result = <<"Ok">>
          \/ /\ IsErr(unit[p].result)
             /\ unit[p].result[2][2] \in {"create_dir_all", "unpack"}

C18_CounterCountsDownloads ==
    /\ bar.pos = Cardinality({p \in DOMAIN unit : Fetched(p)})
    /\ bar.pos <= Len(handles)
    /\ bar.pos >= Cardinality({P \in DOMAIN unit : Landed(P)})

\* the counter stands at 2 with nothing landed whole: a's unpack failed and
\* b's content is not written yet
C18_Witness ==
    /\ bar.pos = 2
    /\ PkgA \in DOMAIN unit
    /\ PkgB \in DOMAIN unit
    /\ unit[PkgA].result = <<"Err", <<"unit", "unpack", "acme_a@1.0.0">> >>
    /\ unit[PkgB].state = "downloaded"
    /\ ~Landed(PkgA)
    /\ ~Landed(PkgB)

\* ------------------------------------------------------------------------
\* C19: the unit of a non-root package P is enqueued only after all of P's
\* sibling links have been written.  When a link write fails, install has
\* failed with that error at that step, the error stays, and neither P nor
\* any package enumerated after P has a unit, then or later.
\* ------------------------------------------------------------------------
IsLinkError(e) == e # NoError /\ e[1] = "link"

C19_LinksBeforeUnit ==
    /\ \A P \in DOMAIN unit :
          /\ P \in NonRootActivated
          /\ HasDeps(P) =>
                \A a \in DOMAIN shared_deps(P) : SiblingLinkPath(P, a) \in DOMAIN files
    /\ IsLinkError(err) =>
          /\ pc = "Failed"
          /\ \A k \in (idx + 1)..Len(order) : order[k] \notin DOMAIN unit

C19_FailureIsFinal ==
    /\ (pc \in {"root_links", "package_links"} /\ err' # err) =>
          /\ IsLinkError(err')
          /\ pc' = "Failed"
          /\ handles' = handles
    /\ IsLinkError(err) =>
          /\ err' = err
          /\ pc' = pc
          /\ handles' = handles
          /\ DOMAIN unit' = DOMAIN unit

C19_UnitAfterLinks ==
    /\ []C19_LinksBeforeUnit
    /\ [][C19_FailureIsFinal]_vars

\* b's links were written and its unit enqueued; then a link of a failed:
\* a has no unit, nor has any package after a
C19_Witness ==
    /\ pc = "Failed"
    /\ IsLinkError(err)
    /\ Current = PkgA
    /\ idx = 1
    /\ handles = <<PkgB>>
    /\ SiblingLinkPath(PkgB, "Foo") \in DOMAIN files
    /\ SiblingLinkPath(PkgA, "Bar") \notin DOMAIN files
    /\ Len(order) = 3

\* ------------------------------------------------------------------------
\* Installs of packages whose identities differ only in where the parts end.
\* Scopes and names are made of lowercase letters, digits and dashes, and
\* versions are semantic versions: none holds an underscore or an at sign.
\* ------------------------------------------------------------------------
IdScopes == {"a", "a-b"}
IdNames == {"c", "b-c"}
IdVersions == {"1.0.0", "1.0.0-rc"}

IdPool ==
    {[scope |-> sc, name |-> n, version |-> v] :
        sc \in IdScopes, n \in IdNames, v \in IdVersions}

InitNames ==
    /\ NoScan
    /\ \E P \in IdPool :
       \E Q \in IdPool \ {P} :
        Start([activated |-> {PkgR, P, Q},
               shared_dependencies |-> EmptyFn,
               metadata |-> [p \in {PkgR, P, Q} |->
                   [source_registry |-> "r1", realm |-> "Shared"]]],
              PkgR, {"r1"}, <<P, PkgR, Q>>)

NextNames ==
    \/ EnterRoot
    \/ EnterPackage
    \/ Spawn
    \/ EndEnumeration
    \/ JoinNext
    \/ Finish
    \/ UnitStart
    \/ \E p \in DOMAIN unit : UnitDownload(p)
    \/ \E p \in DOMAIN unit : UnitWriteContents(p)

SpecNames == InitNames /\ [][NextNames]_vars

\* ------------------------------------------------------------------------
\* C20: two distinct activated identities have different canonical names, so
\* the units of two distinct packages write into different index
\* directories, two units in flight never write the same path, and what an
\* index directory holds is what the one unit that owns it unpacked.
\* ------------------------------------------------------------------------
\* the directory the unit of P writes into (write_contents, Realm::Shared)
UnitDir(P) == index_base_path("Shared") \o <<package_id_file_name(P)>>

UnitInFlight(P) == unit[P].state \in {"running", "downloaded"}

====
